---- MODULE Spec2Model ----
(***************************************************************************)
(* TradeSphere order workflow: order placement (createOrder), payment      *)
(* reconciliation (verifyPayment, confirmBankTransfer, approvePayment),    *)
(* fulfilment (updateOrderStatus) and the catalog edits that interleave    *)
(* with them (updateProduct, deleteProduct).                               *)
(*                                                                         *)
(* Granularity.  A Node handler runs atomically between two awaits.  One   *)
(* action of this model is one document-store operation together with the  *)
(* handler's synchronous code that follows it up to the next store         *)
(* operation (that code touches only the handler's locals).                *)
(***************************************************************************)
EXTENDS Integers, Sequences, FiniteSets, TLC

\* ------------------------------------------------------------------ bounds
MaxReqs    == 2
MaxStock   == 2
MaxQty     == 2
MaxPrice   == 2
MaxCartLen == 2

\* ------------------------------------------------------------- principals
Customers == {"c1", "c2"}
Vendors   == {"v1", "v2"}
Admins    == {"admin"}
Users     == Customers \cup Vendors \cup Admins
Products  == {"p1", "p2"}
Reqs      == 1..MaxReqs

role(u) == IF u \in Vendors THEN "vendor" ELSE IF u \in Admins THEN "admin" ELSE "customer"

NoRef    == "null"
NoMethod == "undefined"
Methods  == {"card", "bank_transfer", "cash_on_delivery"}
validStatuses == {"pending", "processing", "shipped", "delivered", "cancelled"}
BadStatus == "refunded"
NoStatus == "undefined"

VARIABLES products, carts, orders, req, resp, serverUp
vars == <<products, carts, orders, req, resp, serverUp>>

\* ------------------------------------------------------------ responses
\* resp is the response written by the step just taken (NoResp when the step
\* answered nobody).  oid and created are filled in by the 2xx answers.
NoResp == [kind |-> "none", code |-> 0, msg |-> "", oid |-> 0, created |-> <<>>]
Reply(kind, code, msg, oid, created) ==
  [kind |-> kind, code |-> code, msg |-> msg, oid |-> oid, created |-> created]

\* --------------------------------------------------------- handler locals
NoLoaded == [paymentStatus |-> "", paymentReference |-> NoRef, status |-> ""]
IdleReq == [pc |-> "idle", user |-> "none", method |-> NoMethod, ref |-> NoRef,
            paymentStatus |-> "", items |-> <<>>, stockSeen |-> <<>>, groups |-> <<>>, gi |-> 0, ii |-> 0,
            created |-> <<>>, oid |-> 0, loaded |-> NoLoaded, arg |-> ""]


\* ---------------------------------------------------------- Product model
\* (models/Product.model.js is not among the sources: isInStock and
\* reduceStock follow the specification's Catalog Store, "stock-check
\* predicate" and "atomic stock decrement")
isInStock(product, quantity) == product.stockQuantity >= quantity

reduceStock(product, quantity) == [product EXCEPT !.stockQuantity = @ - quantity]

reduceStockFor_One(product, item) == reduceStock(product, 1)

\* product.reduceStock(item.quantity) as createOrder calls it for one line item
reduceStockFor(product, item) == reduceStock(product, item.quantity)

\* ------------------------------------------------- createOrder: the loop
RECURSIVE SumTotalPrice(_)
SumTotalPrice(items) ==
  IF items = <<>> THEN 0 ELSE SumTotalPrice(SubSeq(items, 1, Len(items) - 1)) + items[Len(items)].totalPrice

GroupIndex(groups, vendorId) ==
  IF \E k \in 1..Len(groups) : groups[k].vendor = vendorId
  THEN CHOOSE k \in 1..Len(groups) : groups[k].vendor = vendorId
  ELSE 0

PushItem_NoMerge(groups, vendorId, oitem) ==
  Append(groups, [vendor |-> vendorId, items |-> <<oitem>>])

PushItem(groups, vendorId, oitem) ==
  LET k == GroupIndex(groups, vendorId) IN
  IF k = 0 THEN Append(groups, [vendor |-> vendorId, items |-> <<oitem>>])
  ELSE [groups EXCEPT ![k].items = Append(@, oitem)]

OrderItem_NoQuantity(pid, product, quantity) ==
  [product |-> pid, quantity |-> quantity, unitPrice |-> product.price,
   totalPrice |-> product.price]

OrderItem(pid, product, quantity) ==
  [product |-> pid, quantity |-> quantity, unitPrice |-> product.price,
   totalPrice |-> product.price * quantity]

RECURSIVE GroupLoop_IgnoreActive(_, _, _, _)
GroupLoop_IgnoreActive(items, cat, i, groups) ==
  IF i > Len(items) THEN [err |-> "none", groups |-> groups]
  ELSE LET item == items[i]
           product == cat[item.product]
       IN IF ~product.exists
          THEN [err |-> "unavailable", groups |-> <<>>]
          ELSE IF ~isInStock(product, item.quantity)
          THEN [err |-> "stock", groups |-> <<>>]
          ELSE GroupLoop_IgnoreActive(items, cat, i + 1,
                         PushItem(groups, product.vendor, OrderItem(item.product, product, item.quantity)))

RECURSIVE GroupLoop_NoStockCheck(_, _, _, _)
GroupLoop_NoStockCheck(items, cat, i, groups) ==
  IF i > Len(items) THEN [err |-> "none", groups |-> groups]
  ELSE LET item == items[i]
           product == cat[item.product]
       IN IF ~product.exists \/ ~product.isActive
          THEN [err |-> "unavailable", groups |-> <<>>]
          ELSE GroupLoop_NoStockCheck(items, cat, i + 1,
                         PushItem(groups, product.vendor, OrderItem(item.product, product, item.quantity)))

RECURSIVE GroupLoop(_, _, _, _)
GroupLoop(items, cat, i, groups) ==
  IF i > Len(items) THEN [err |-> "none", groups |-> groups]
  ELSE LET item == items[i]
           product == cat[item.product]
       IN IF ~product.exists \/ ~product.isActive
          THEN [err |-> "unavailable", groups |-> <<>>]
          ELSE IF ~isInStock(product, item.quantity)
          THEN [err |-> "stock", groups |-> <<>>]
          ELSE GroupLoop(items, cat, i + 1,
                         PushItem(groups, product.vendor, OrderItem(item.product, product, item.quantity)))

SeedPaymentStatus_AnyCard(paymentMethod, paymentReference) ==
  IF paymentMethod = "card" THEN "paid" ELSE "pending"

SeedPaymentStatus(paymentMethod, paymentReference) ==
  IF paymentMethod = "card" /\ paymentReference # NoRef THEN "paid"
  ELSE IF paymentMethod = "bank_transfer" THEN "pending"
  ELSE IF paymentMethod = "cash_on_delivery" THEN "pending"
  ELSE "pending"

NewOrder(r, group) ==
  [customer |-> req[r].user, vendor |-> group.vendor, items |-> group.items,
   totalAmount |-> SumTotalPrice(group.items),
   shippingAddress |-> "X", phone |-> "Y",
   paymentMethod |-> IF req[r].method = NoMethod THEN "cash_on_delivery" ELSE req[r].method,
   paymentStatus |-> req[r].paymentStatus,
   paymentReference |-> req[r].ref,
   status |-> "pending"]

\* ------------------------------------------------------------------- Init
Lines == [product : Products, quantity : 1..MaxQty]
DistinctProducts(s) == \A i, j \in 1..Len(s) : i # j => s[i].product # s[j].product
CartItemSets == UNION {{s \in [1..n -> Lines] : DistinctProducts(s)} : n \in 0..MaxCartLen}

InitWith(VendorMaps, StockMaps, CartMaps) ==
  /\ \E vp \in VendorMaps, st \in StockMaps :
       products = [p \in Products |->
                     [exists |-> TRUE, isActive |-> TRUE, price |-> 1,
                      stockQuantity |-> st[p], vendor |-> vp[p]]]
  /\ \E cs \in CartMaps :
       carts = [u \in Users |-> IF u \in Customers
                                THEN [exists |-> TRUE, items |-> cs[u]]
                                ELSE [exists |-> FALSE, items |-> <<>>]]
  /\ orders = <<>>
  /\ req = [r \in Reqs |-> IdleReq]
  /\ resp = NoResp
  /\ serverUp = TRUE

VendorMaps == {vp \in [Products -> Vendors] : vp["p1"] = "v1"}
StockMaps  == [Products -> 0..MaxStock]

\* one shopper (c1) with any cart; c2's cart is empty
Init == InitWith(VendorMaps, StockMaps, {cs \in [Customers -> CartItemSets] : cs["c2"] = <<>>})

\* ---------------------------------------------------------- createOrder
\* the answer of createOrder's checks of the request and the cart, NoResp
\* when they all pass
createOrder_Check_NoPhone(u, shippingAddress, phone) ==
  IF shippingAddress = ""
  THEN Reply("createOrder", 400, "Shipping address is required", 0, <<>>)
  ELSE IF ~carts[u].exists \/ Len(carts[u].items) = 0
  THEN Reply("createOrder", 400, "Cart is empty", 0, <<>>)
  ELSE NoResp

createOrder_Check(u, shippingAddress, phone) ==
  IF shippingAddress = ""
  THEN Reply("createOrder", 400, "Shipping address is required", 0, <<>>)
  ELSE IF phone = ""
  THEN Reply("createOrder", 400, "Phone number is required", 0, <<>>)
  ELSE IF ~carts[u].exists \/ Len(carts[u].items) = 0
  THEN Reply("createOrder", 400, "Cart is empty", 0, <<>>)
  ELSE NoResp

createOrder_Begin(r, u, shippingAddress, phone, paymentMethod, paymentReference) ==
  /\ serverUp /\ req[r].pc = "idle"
  /\ resp' = createOrder_Check(u, shippingAddress, phone)
  /\ IF createOrder_Check(u, shippingAddress, phone) = NoResp
     THEN req' = [req EXCEPT ![r] = [IdleReq EXCEPT !.pc = "co_populate", !.user = u,
                                      !.method = paymentMethod, !.ref = paymentReference,
                                      !.items = carts[u].items]]
     ELSE UNCHANGED req
  /\ UNCHANGED <<products, carts, orders, serverUp>>

createOrder_Populate(r) ==
  /\ serverUp /\ req[r].pc = "co_populate"
  /\ LET res == GroupLoop(req[r].items, products, 1, <<>>) IN
     IF res.err = "unavailable"
     THEN /\ resp' = Reply("createOrder", 404, "Product not available", 0, <<>>)
          /\ req' = [req EXCEPT ![r] = IdleReq]
     ELSE IF res.err = "stock"
     THEN /\ resp' = Reply("createOrder", 400, "Insufficient stock", 0, <<>>)
          /\ req' = [req EXCEPT ![r] = IdleReq]
     ELSE /\ req' = [req EXCEPT ![r].pc = "co_create", ![r].groups = res.groups, ![r].gi = 1,
                                ![r].stockSeen = [i \in 1..Len(req[r].items) |->
                                                    products[req[r].items[i].product].stockQuantity],
                                ![r].paymentStatus = SeedPaymentStatus(req[r].method, req[r].ref)]
          /\ resp' = NoResp
  /\ UNCHANGED <<products, carts, orders, serverUp>>

createOrder_Create_Deferred(r) ==
  /\ serverUp /\ req[r].pc = "co_create"
  /\ req' = [req EXCEPT ![r].pc = "co_find", ![r].ii = 1, ![r].oid = Len(orders) + 1]
  /\ resp' = NoResp
  /\ UNCHANGED <<products, carts, orders, serverUp>>

createOrder_Create(r) ==
  /\ serverUp /\ req[r].pc = "co_create"
  /\ orders' = Append(orders, NewOrder(r, req[r].groups[req[r].gi]))
  /\ req' = [req EXCEPT ![r].pc = "co_find", ![r].ii = 1, ![r].oid = Len(orders) + 1]
  /\ resp' = NoResp
  /\ UNCHANGED <<products, carts, serverUp>>

createOrder_FindProduct_Rollback(r) ==
  /\ serverUp /\ req[r].pc = "co_find"
  /\ LET item == req[r].groups[req[r].gi].items[req[r].ii] IN
     IF ~products[item.product].exists
     THEN /\ resp' = Reply("createOrder", 500, "Server Error", 0, <<>>)
          /\ req' = [req EXCEPT ![r] = IdleReq]
          /\ orders' = SubSeq(orders, 1, Len(orders) - 1)
     ELSE /\ req' = [req EXCEPT ![r].pc = "co_reduce"]
          /\ resp' = NoResp
          /\ UNCHANGED orders
  /\ UNCHANGED <<products, carts, serverUp>>

createOrder_FindProduct(r) ==
  /\ serverUp /\ req[r].pc = "co_find"
  /\ LET item == req[r].groups[req[r].gi].items[req[r].ii] IN
     IF ~products[item.product].exists
     THEN /\ resp' = Reply("createOrder", 500, "Server Error", 0, req[r].created)
          /\ req' = [req EXCEPT ![r] = IdleReq]
     ELSE /\ req' = [req EXCEPT ![r].pc = "co_reduce"]
          /\ resp' = NoResp
  /\ UNCHANGED <<products, carts, orders, serverUp>>

createOrder_ReduceStock_Recheck(r) ==
  /\ serverUp /\ req[r].pc = "co_reduce"
  /\ LET group == req[r].groups[req[r].gi]
         item == group.items[req[r].ii]
     IN IF ~products[item.product].exists \/ ~isInStock(products[item.product], item.quantity)
        THEN /\ resp' = Reply("createOrder", 500, "Server Error", 0, req[r].created)
             /\ req' = [req EXCEPT ![r] = IdleReq]
             /\ UNCHANGED products
        ELSE /\ products' = [products EXCEPT ![item.product] = reduceStockFor(@, item)]
             /\ resp' = NoResp
             /\ IF req[r].ii < Len(group.items)
                THEN req' = [req EXCEPT ![r].pc = "co_find", ![r].ii = @ + 1]
                ELSE IF req[r].gi < Len(req[r].groups)
                THEN req' = [req EXCEPT ![r].pc = "co_create", ![r].gi = @ + 1, ![r].ii = 0,
                                        ![r].created = Append(@, req[r].oid)]
                ELSE req' = [req EXCEPT ![r].pc = "co_clear",
                                        ![r].created = Append(@, req[r].oid)]
  /\ UNCHANGED <<carts, orders, serverUp>>

createOrder_ReduceStock(r) ==
  /\ serverUp /\ req[r].pc = "co_reduce"
  /\ LET group == req[r].groups[req[r].gi]
         item == group.items[req[r].ii]
     IN IF ~products[item.product].exists
        THEN /\ resp' = Reply("createOrder", 500, "Server Error", 0, req[r].created)
             /\ req' = [req EXCEPT ![r] = IdleReq]
             /\ UNCHANGED products
        ELSE /\ products' = [products EXCEPT ![item.product] = reduceStockFor(@, item)]
             /\ resp' = NoResp
             /\ IF req[r].ii < Len(group.items)
                THEN req' = [req EXCEPT ![r].pc = "co_find", ![r].ii = @ + 1]
                ELSE IF req[r].gi < Len(req[r].groups)
                THEN req' = [req EXCEPT ![r].pc = "co_create", ![r].gi = @ + 1, ![r].ii = 0,
                                        ![r].created = Append(@, req[r].oid)]
                ELSE req' = [req EXCEPT ![r].pc = "co_clear",
                                        ![r].created = Append(@, req[r].oid)]
  /\ UNCHANGED <<carts, orders, serverUp>>

createOrder_ClearCart_Skip(r) ==
  /\ serverUp /\ req[r].pc = "co_clear"
  /\ resp' = Reply("createOrder", 201, "Order placed successfully", 0, req[r].created)
  /\ req' = [req EXCEPT ![r] = IdleReq]
  /\ UNCHANGED <<products, carts, orders, serverUp>>

createOrder_ClearCart(r) ==
  /\ serverUp /\ req[r].pc = "co_clear"
  /\ carts' = [carts EXCEPT ![req[r].user].items = <<>>]
  /\ resp' = Reply("createOrder", 201, "Order placed successfully", 0, req[r].created)
  /\ req' = [req EXCEPT ![r] = IdleReq]
  /\ UNCHANGED <<products, orders, serverUp>>

createOrder(r, U, MR) ==
  \/ \E u \in U, mr \in MR :
       \/ createOrder_Begin(r, u, "X", "Y", mr[1], mr[2])
       \/ createOrder_Begin(r, u, "", "Y", mr[1], mr[2])
       \/ createOrder_Begin(r, u, "X", "", mr[1], mr[2])
  \/ createOrder_Populate(r)
  \/ createOrder_Create(r)
  \/ createOrder_FindProduct(r)
  \/ createOrder_ReduceStock(r)
  \/ createOrder_ClearCart(r)

\* -------------------------------------------------------- verifyPayment
GatewayOutcomes == {"success", "failed", "nodata", "unparsable", "neterror"}

updateManyPaid_All(os, reference) ==
  [i \in 1..Len(os) |-> [os[i] EXCEPT !.paymentStatus = "paid"]]

updateManyPaid(os, reference) ==
  [i \in 1..Len(os) |-> IF os[i].paymentReference = reference
                        THEN [os[i] EXCEPT !.paymentStatus = "paid"]
                        ELSE os[i]]

verifyPayment_Begin(r, u, reference) ==
  /\ serverUp /\ req[r].pc = "idle"
  /\ IF reference = NoRef
     THEN /\ resp' = Reply("verifyPayment", 400, "Payment reference is required", 0, <<>>)
          /\ UNCHANGED req
     ELSE /\ req' = [req EXCEPT ![r] = [IdleReq EXCEPT !.pc = "vp_gateway", !.user = u, !.ref = reference]]
          /\ resp' = NoResp
  /\ UNCHANGED <<products, carts, orders, serverUp>>

\* the gateway's answer reaches the https.request callback (or the request's
\* 'error' event fires); outcome is what the 'end' callback will find in data
verifyPayment_GatewayResponse(r, outcome) ==
  /\ serverUp /\ req[r].pc = "vp_gateway"
  /\ req' = [req EXCEPT ![r].pc = "vp_end", ![r].arg = outcome]
  /\ resp' = NoResp
  /\ UNCHANGED <<products, carts, orders, serverUp>>

verifyPayment_GatewayEnd_NoStatusTest(r) ==
  /\ serverUp /\ req[r].pc = "vp_end"
  /\ orders' = updateManyPaid(orders, req[r].ref)
  /\ resp' = Reply("verifyPayment", 200, "Payment verified successfully", 0, <<>>)
  /\ req' = [req EXCEPT ![r] = IdleReq]
  /\ UNCHANGED <<products, carts, serverUp>>

verifyPayment_GatewayEnd(r) ==
  /\ serverUp /\ req[r].pc = "vp_end"
  /\ IF req[r].arg = "success"
     THEN /\ orders' = updateManyPaid(orders, req[r].ref)
          /\ resp' = Reply("verifyPayment", 200, "Payment verified successfully", 0, <<>>)
          /\ req' = [req EXCEPT ![r] = IdleReq]
          /\ UNCHANGED serverUp
     ELSE IF req[r].arg = "failed"
     THEN /\ resp' = Reply("verifyPayment", 400, "Payment verification failed", 0, <<>>)
          /\ req' = [req EXCEPT ![r] = IdleReq]
          /\ UNCHANGED <<orders, serverUp>>
     ELSE IF req[r].arg = "neterror"
     THEN /\ resp' = Reply("verifyPayment", 500, "Payment verification failed", 0, <<>>)
          /\ req' = [req EXCEPT ![r] = IdleReq]
          /\ UNCHANGED <<orders, serverUp>>
     ELSE \* "nodata" (response.data is undefined) / "unparsable" (JSON.parse throws):
          \* the async 'end' callback rejects, nobody handles the rejection and
          \* process.on('unhandledRejection') exits without answering anyone
          /\ serverUp' = FALSE
          /\ resp' = NoResp
          /\ UNCHANGED <<orders, req>>
  /\ UNCHANGED <<products, carts>>

verifyPayment(r, U, R, O) ==
  \/ \E u \in U, reference \in R : verifyPayment_Begin(r, u, reference)
  \/ \E outcome \in O : verifyPayment_GatewayResponse(r, outcome)
  \/ verifyPayment_GatewayEnd(r)

\* -------------------------------------------------- Order.findById / save
findById(oid) == oid \in 1..Len(orders)

Loaded(oid) == [paymentStatus |-> orders[oid].paymentStatus,
                paymentReference |-> orders[oid].paymentReference,
                status |-> orders[oid].status]

\* document.save() writes the paths whose assigned value differs from the loaded one
saveField(current, loadedValue, assigned) == IF assigned # loadedValue THEN assigned ELSE current

\* --------------------------------------------------- confirmBankTransfer
\* the customer test of confirmBankTransfer
notCustomer_AdminAllowed(order, u) == order.customer # u /\ role(u) # "admin"

notCustomer(order, u) == order.customer # u

\* the answer of confirmBankTransfer's checks, NoResp when they all pass
confirmBankTransfer_Check(u, oid) ==
  IF ~findById(oid)
  THEN Reply("confirmBankTransfer", 404, "Order not found", 0, <<>>)
  ELSE IF notCustomer(orders[oid], u)
  THEN Reply("confirmBankTransfer", 403, "Not authorized", 0, <<>>)
  ELSE NoResp

confirmBankTransfer_Begin(r, u, oid, transferReference) ==
  /\ serverUp /\ req[r].pc = "idle"
  /\ resp' = confirmBankTransfer_Check(u, oid)
  /\ IF confirmBankTransfer_Check(u, oid) = NoResp
     THEN req' = [req EXCEPT ![r] = [IdleReq EXCEPT !.pc = "cbt_save", !.user = u, !.oid = oid,
                                      !.loaded = Loaded(oid), !.ref = transferReference]]
     ELSE UNCHANGED req
  /\ UNCHANGED <<products, carts, orders, serverUp>>

confirmBankTransfer_Save_KeepFirst(r) ==
  /\ serverUp /\ req[r].pc = "cbt_save"
  /\ orders' = [orders EXCEPT
       ![req[r].oid].paymentReference = IF @ = NoRef THEN req[r].ref ELSE @,
       ![req[r].oid].paymentStatus = saveField(@, req[r].loaded.paymentStatus, "pending")]
  /\ resp' = Reply("confirmBankTransfer", 200, "Bank transfer details submitted", req[r].oid, <<>>)
  /\ req' = [req EXCEPT ![r] = IdleReq]
  /\ UNCHANGED <<products, carts, serverUp>>

confirmBankTransfer_Save(r) ==
  /\ serverUp /\ req[r].pc = "cbt_save"
  /\ orders' = [orders EXCEPT
       ![req[r].oid].paymentReference = saveField(@, req[r].loaded.paymentReference, req[r].ref),
       ![req[r].oid].paymentStatus = saveField(@, req[r].loaded.paymentStatus, "pending")]
  /\ resp' = Reply("confirmBankTransfer", 200, "Bank transfer details submitted", req[r].oid, <<>>)
  /\ req' = [req EXCEPT ![r] = IdleReq]
  /\ UNCHANGED <<products, carts, serverUp>>

confirmBankTransfer(r, U, R) ==
  \/ \E u \in U, oid \in 0..Len(orders), t \in R : confirmBankTransfer_Begin(r, u, oid, t)
  \/ confirmBankTransfer_Save(r)

\* ------------------------------------------------------------- isVendor
isVendor(u) == role(u) = "vendor" \/ role(u) = "admin"

\* the ownership test of approvePayment and updateOrderStatus
notVendorNorAdmin_RoleOnly(order, u) == role(u) # "vendor" /\ role(u) # "admin"

notVendorNorAdmin(order, u) == order.vendor # u /\ role(u) # "admin"

alreadyApproved_Never(order) == FALSE

alreadyApproved_NotPending(order) == order.paymentStatus # "pending"

alreadyApproved(order) == order.paymentStatus = "approved"

\* -------------------------------------------------------- approvePayment
\* the answer of approvePayment's checks, NoResp when they all pass
approvePayment_Check(u, oid) ==
  IF ~isVendor(u)
  THEN Reply("approvePayment", 403, "Access denied. Vendor role required.", 0, <<>>)
  ELSE IF ~findById(oid)
  THEN Reply("approvePayment", 404, "Order not found", 0, <<>>)
  ELSE IF notVendorNorAdmin(orders[oid], u)
  THEN Reply("approvePayment", 403, "Not authorized to approve this payment", 0, <<>>)
  ELSE IF alreadyApproved(orders[oid])
  THEN Reply("approvePayment", 400, "Payment already approved", 0, <<>>)
  ELSE NoResp

approvePayment_Begin(r, u, oid) ==
  /\ serverUp /\ req[r].pc = "idle"
  /\ resp' = approvePayment_Check(u, oid)
  /\ IF approvePayment_Check(u, oid) = NoResp
     THEN req' = [req EXCEPT ![r] = [IdleReq EXCEPT !.pc = "ap_save", !.user = u, !.oid = oid,
                                      !.loaded = Loaded(oid)]]
     ELSE UNCHANGED req
  /\ UNCHANGED <<products, carts, orders, serverUp>>

approvePayment_Save_WholeDocument(r) ==
  /\ serverUp /\ req[r].pc = "ap_save"
  /\ orders' = [orders EXCEPT
       ![req[r].oid].paymentStatus = "approved",
       ![req[r].oid].paymentReference = req[r].loaded.paymentReference,
       ![req[r].oid].status = req[r].loaded.status]
  /\ resp' = Reply("approvePayment", 200, "Payment approved successfully", req[r].oid, <<>>)
  /\ req' = [req EXCEPT ![r] = IdleReq]
  /\ UNCHANGED <<products, carts, serverUp>>

approvePayment_Save(r) ==
  /\ serverUp /\ req[r].pc = "ap_save"
  /\ orders' = [orders EXCEPT
       ![req[r].oid].paymentStatus = saveField(@, req[r].loaded.paymentStatus, "approved")]
  /\ resp' = Reply("approvePayment", 200, "Payment approved successfully", req[r].oid, <<>>)
  /\ req' = [req EXCEPT ![r] = IdleReq]
  /\ UNCHANGED <<products, carts, serverUp>>

approvePayment(r, U) ==
  \/ \E u \in U, oid \in 0..Len(orders) : approvePayment_Begin(r, u, oid)
  \/ approvePayment_Save(r)

\* ----------------------------------------------------- updateOrderStatus
invalidStatus_MissingAllowed(status) == status \notin validStatuses /\ status # NoStatus

invalidStatus(status) == status \notin validStatuses

\* the answer of updateOrderStatus's checks, NoResp when they all pass
updateOrderStatus_Check(u, oid, status) ==
  IF ~isVendor(u)
  THEN Reply("updateOrderStatus", 403, "Access denied. Vendor role required.", 0, <<>>)
  ELSE IF invalidStatus(status)
  THEN Reply("updateOrderStatus", 400, "Invalid status", 0, <<>>)
  ELSE IF ~findById(oid)
  THEN Reply("updateOrderStatus", 404, "Order not found", 0, <<>>)
  ELSE IF notVendorNorAdmin(orders[oid], u)
  THEN Reply("updateOrderStatus", 403, "Not authorized", 0, <<>>)
  ELSE NoResp

updateOrderStatus_Begin(r, u, oid, status) ==
  /\ serverUp /\ req[r].pc = "idle"
  /\ resp' = updateOrderStatus_Check(u, oid, status)
  /\ IF updateOrderStatus_Check(u, oid, status) = NoResp
     THEN req' = [req EXCEPT ![r] = [IdleReq EXCEPT !.pc = "uos_save", !.user = u, !.oid = oid,
                                      !.loaded = Loaded(oid), !.arg = status]]
     ELSE UNCHANGED req
  /\ UNCHANGED <<products, carts, orders, serverUp>>

updateOrderStatus_Save_ForwardOnly(r) ==
  /\ serverUp /\ req[r].pc = "uos_save"
  /\ orders' = [orders EXCEPT
       ![req[r].oid].status = IF req[r].arg = "pending" THEN @ ELSE req[r].arg]
  /\ resp' = Reply("updateOrderStatus", 200, "Order status updated", req[r].oid, <<>>)
  /\ req' = [req EXCEPT ![r] = IdleReq]
  /\ UNCHANGED <<products, carts, serverUp>>

updateOrderStatus_Save_WholeDocument(r) ==
  /\ serverUp /\ req[r].pc = "uos_save"
  /\ orders' = [orders EXCEPT
       ![req[r].oid].status = req[r].arg,
       ![req[r].oid].paymentStatus = req[r].loaded.paymentStatus,
       ![req[r].oid].paymentReference = req[r].loaded.paymentReference]
  /\ resp' = Reply("updateOrderStatus", 200, "Order status updated", req[r].oid, <<>>)
  /\ req' = [req EXCEPT ![r] = IdleReq]
  /\ UNCHANGED <<products, carts, serverUp>>

updateOrderStatus_Save_Restock(r) ==
  /\ serverUp /\ req[r].pc = "uos_save"
  /\ orders' = [orders EXCEPT
       ![req[r].oid].status = saveField(@, req[r].loaded.status, req[r].arg)]
  /\ products' = IF req[r].arg = "cancelled"
                 THEN [p \in Products |->
                         [products[p] EXCEPT !.stockQuantity =
                            @ + Cardinality({j \in 1..Len(orders[req[r].oid].items) :
                                               orders[req[r].oid].items[j].product = p})]]
                 ELSE products
  /\ resp' = Reply("updateOrderStatus", 200, "Order status updated", req[r].oid, <<>>)
  /\ req' = [req EXCEPT ![r] = IdleReq]
  /\ UNCHANGED <<carts, serverUp>>

updateOrderStatus_Save(r) ==
  /\ serverUp /\ req[r].pc = "uos_save"
  /\ orders' = [orders EXCEPT
       ![req[r].oid].status = saveField(@, req[r].loaded.status, req[r].arg)]
  /\ resp' = Reply("updateOrderStatus", 200, "Order status updated", req[r].oid, <<>>)
  /\ req' = [req EXCEPT ![r] = IdleReq]
  /\ UNCHANGED <<products, carts, serverUp>>

updateOrderStatus(r, U, S) ==
  \/ \E u \in U, oid \in 0..Len(orders), st \in S : updateOrderStatus_Begin(r, u, oid, st)
  \/ updateOrderStatus_Save(r)

\* --------------------------------------------------------------- getOrder
\* the answer of getOrder (oid = 0: an id that resolves to no order)
getOrder_Check_HideExistence(u, oid) ==
  IF ~findById(oid)
  THEN Reply("getOrder", 404, "Order not found", 0, <<>>)
  ELSE IF orders[oid].customer # u /\ orders[oid].vendor # u /\ role(u) # "admin"
  THEN Reply("getOrder", 404, "Order not found", 0, <<>>)
  ELSE Reply("getOrder", 200, "", oid, <<>>)

getOrder_Check(u, oid) ==
  IF ~findById(oid)
  THEN Reply("getOrder", 404, "Order not found", 0, <<>>)
  ELSE IF orders[oid].customer # u /\ orders[oid].vendor # u /\ role(u) # "admin"
  THEN Reply("getOrder", 403, "Not authorized", 0, <<>>)
  ELSE Reply("getOrder", 200, "", oid, <<>>)

getOrder(u, oid) ==
  /\ serverUp
  /\ resp' = getOrder_Check(u, oid)
  /\ UNCHANGED <<products, carts, orders, req, serverUp>>

\* ------------------------------------------- catalog: updateProduct/delete
applyUpdates(product, updates) ==
  [product EXCEPT
     !.price = IF "price" \in DOMAIN updates THEN updates.price ELSE @,
     !.stockQuantity = IF "stockQuantity" \in DOMAIN updates THEN updates.stockQuantity ELSE @,
     !.isActive = IF "isActive" \in DOMAIN updates THEN updates.isActive ELSE @]

\* The catalog handlers answer their own callers; those responses are not
\* order responses and are not recorded in resp.
updateProduct(u, p, updates) ==
  /\ serverUp
  /\ IF ~products[p].exists
     THEN UNCHANGED products
     ELSE IF products[p].vendor # u
     THEN UNCHANGED products
     ELSE products' = [products EXCEPT ![p] = applyUpdates(@, updates)]
  /\ resp' = NoResp
  /\ UNCHANGED <<carts, orders, req, serverUp>>

deleteProduct(u, p) ==
  /\ serverUp
  /\ IF ~products[p].exists
     THEN UNCHANGED products
     ELSE IF products[p].vendor # u /\ role(u) # "admin"
     THEN UNCHANGED products
     ELSE products' = [products EXCEPT ![p].exists = FALSE]
  /\ resp' = NoResp
  /\ UNCHANGED <<carts, orders, req, serverUp>>

PriceUpdates  == {[price |-> x] : x \in 1..MaxPrice}
ActiveUpdates == {[isActive |-> b] : b \in BOOLEAN}

\* ------------------------------------------------------- specifications
\* Order placement, one request at a time; p1 is the product its vendor
\* deactivates, reactivates or deletes between any two steps of a placement.
PlaceInputs == {<<"card", "ref1">>, <<"card", NoRef>>, <<"bank_transfer", "ref1">>,
                <<"cash_on_delivery", NoRef>>, <<NoMethod, NoRef>>}

NextPlace ==
  \/ createOrder(1, {"c1", "v1"}, PlaceInputs)
  \/ \E u \in Vendors, upd \in ActiveUpdates : updateProduct(u, "p1", upd)
  \/ \E u \in Vendors : deleteProduct(u, "p1")

Next == NextPlace

Spec == Init /\ [][Next]_vars

\* Payment reconciliation over the orders of one or two checkouts, one
\* request at a time.
UnitCarts == {s \in CartItemSets : \A i \in 1..Len(s) : s[i].quantity = 1}
CartProducts(s) == {s[i].product : i \in 1..Len(s)}
PayCartMaps == {cs \in [Customers -> UnitCarts] : CartProducts(cs["c1"]) \cap CartProducts(cs["c2"]) = {}}

InitPay == InitWith(VendorMaps, {[p \in Products |-> MaxStock]}, PayCartMaps)

NextPay ==
  \/ createOrder(1, Customers, {<<"card", "ref1">>, <<"bank_transfer", NoRef>>})
  \/ verifyPayment(1, {"c1"}, {NoRef, "ref1", "ref2"}, GatewayOutcomes)
  \/ confirmBankTransfer(1, Customers \cup {"v1"}, {"ref2"})
  \/ approvePayment(1, {"c1", "v1", "v2", "admin"})

SpecPay == InitPay /\ [][NextPay]_vars

\* Vendor-side operations (payment approval and fulfilment) over one
\* shopper's orders, one request at a time.
StatusInputs == validStatuses \cup {BadStatus, NoStatus}

InitFulfil == InitWith(VendorMaps, {[p \in Products |-> MaxStock]},
                       {cs \in [Customers -> UnitCarts] : cs["c2"] = <<>>})

NextFulfil ==
  \/ createOrder(1, {"c1"}, {<<"card", "ref1">>, <<"bank_transfer", NoRef>>})
  \/ approvePayment(1, {"c1", "v1", "v2", "admin"})
  \/ updateOrderStatus(1, {"c1", "v1", "v2", "admin"}, StatusInputs)

SpecFulfil == InitFulfil /\ [][NextFulfil]_vars

\* Bank-transfer submission by every kind of principal over one shopper's
\* orders, one request at a time.
NextTransfer ==
  \/ createOrder(1, {"c1"}, {<<"card", "ref1">>, <<"bank_transfer", NoRef>>})
  \/ confirmBankTransfer(1, {"c1", "c2", "v1", "admin"}, {"ref1", "ref2"})
  \/ approvePayment(1, {"v1", "admin"})

SpecTransfer == InitFulfil /\ [][NextTransfer]_vars

\* Concurrent requests on the orders of one checkout: the order is placed,
\* then payment and fulfilment requests interleave between their load and
\* their save.
InitRace == InitWith(VendorMaps, {[p \in Products |-> MaxStock]},
                     {cs \in [Customers -> UnitCarts] : Len(cs["c1"]) = 1 /\ cs["c2"] = <<>>})

NextRace ==
  \/ createOrder(1, {"c1"}, {<<"bank_transfer", NoRef>>})
  \/ \E r \in Reqs :
       \/ verifyPayment(r, {"c1"}, {"ref2"}, {"success"})
       \/ confirmBankTransfer(r, {"c1"}, {"ref2"})
       \/ approvePayment(r, {"admin"})
       \/ updateOrderStatus(r, {"admin"}, {"shipped"})

SpecRace == InitRace /\ [][NextRace]_vars

\* Reading single orders, by every principal, between the steps of one
\* shopper's placements.
NextRead ==
  \/ createOrder(1, {"c1"}, {<<"card", "ref1">>, <<"bank_transfer", NoRef>>})
  \/ \E u \in Users, oid \in 0..Len(orders) : getOrder(u, oid)

SpecRead == InitFulfil /\ [][NextRead]_vars

\* Concurrent checkouts: both shoppers hold one line of p1 in their carts and
\* placements, by either shopper on either request slot, interleave.
InitCheckout == InitWith({vp \in VendorMaps : vp["p2"] = "v2"},
                         {st \in StockMaps : st["p1"] = MaxStock /\ st["p2"] = 0},
                         {cs \in [Customers -> CartItemSets] :
                            /\ \A u \in Customers : Len(cs[u]) = 1 /\ cs[u][1].product = "p1"
                            /\ cs["c1"][1].quantity = MaxQty /\ cs["c2"][1].quantity = 1})

NextCheckout == \E r \in Reqs : createOrder(r, Customers, {<<"cash_on_delivery", NoRef>>})

SpecCheckout == InitCheckout /\ [][NextCheckout]_vars

\* The ledger over time: one shopper's orders, then price changes, payment
\* reconciliation and fulfilment, one request at a time.
InitLedger == InitWith(VendorMaps, {[p \in Products |-> MaxStock]},
                       {cs \in [Customers -> CartItemSets] : cs["c2"] = <<>>})

NextLedger ==
  \/ createOrder(1, {"c1"}, {<<"card", "ref1">>, <<"bank_transfer", NoRef>>})
  \/ \E upd \in PriceUpdates : updateProduct("v1", "p1", upd)
  \/ verifyPayment(1, {"c1"}, {"ref1"}, {"success"})
  \/ confirmBankTransfer(1, {"c1"}, {"ref2"})
  \/ approvePayment(1, {"admin"})
  \/ updateOrderStatus(1, {"admin"}, {"cancelled"})

SpecLedger == InitLedger /\ [][NextLedger]_vars

\* Stock over the life of an order: one shopper's placements, then payment
\* reconciliation and fulfilment (cancellation included), one request at a
\* time.
NextCancel ==
  \/ createOrder(1, {"c1"}, {<<"bank_transfer", NoRef>>})
  \/ verifyPayment(1, {"c1"}, {"ref2"}, {"success"})
  \/ confirmBankTransfer(1, {"c1"}, {"ref2"})
  \/ approvePayment(1, {"admin"})
  \/ updateOrderStatus(1, {"admin"}, {"cancelled", "pending"})

SpecCancel == InitFulfil /\ [][NextCancel]_vars

\* Placements that fail part-way: a vendor deletes a product between any two
\* steps of one shopper's placement.
NextPartial ==
  \/ createOrder(1, {"c1"}, {<<"cash_on_delivery", NoRef>>})
  \/ \E u \in Vendors, p \in Products : deleteProduct(u, p)

SpecPartial == InitLedger /\ [][NextPartial]_vars

\* ================================================================ claims
SeqRange(s) == {s[i] : i \in 1..Len(s)}
CountIn(s, x) == Cardinality({i \in 1..Len(s) : s[i] = x})

\* r's handler is the one taking the step
Steps(r) == req'[r] # req[r]
Placed(r) == req[r].pc = "co_clear" /\ Steps(r) /\ resp'.kind = "createOrder" /\ resp'.code = 201

\* C1: a successful placeOrder over a cart whose lines belong to k distinct
\* vendors creates exactly k orders, every order holds only items of its own
\* vendor, and the (product, quantity) pairs of the created orders are the
\* cart's pairs, each as often as in the cart.
C1_VendorPartition ==
  [][\A r \in Reqs : Placed(r) =>
       LET cart == carts[req[r].user].items
           ids == resp'.created
           k == Cardinality({products[cart[i].product].vendor : i \in 1..Len(cart)})
       IN /\ Len(ids) = k
          /\ \A a, b \in 1..Len(ids) : a # b => ids[a] # ids[b]
          /\ \A a \in 1..Len(ids) :
               /\ ids[a] \in 1..Len(orders')
               /\ \A it \in SeqRange(orders'[ids[a]].items) :
                    products[it.product].vendor = orders'[ids[a]].vendor
          /\ \A line \in Lines :
               CountIn(cart, line) =
                 Cardinality({<<a, j>> \in (1..Len(ids)) \X (1..MaxCartLen) :
                                /\ j <= Len(orders'[ids[a]].items)
                                /\ orders'[ids[a]].items[j].product = line.product
                                /\ orders'[ids[a]].items[j].quantity = line.quantity})
  ]_vars

C1_Witness ==
  /\ resp.kind = "createOrder" /\ resp.code = 201 /\ Len(resp.created) = 2
  /\ orders[resp.created[1]].vendor # orders[resp.created[2]].vendor

RECURSIVE SumOfTotals(_, _)
SumOfTotals(items, n) == IF n = 0 THEN 0 ELSE SumOfTotals(items, n - 1) + items[n].totalPrice

\* C2: every order's totalAmount is the sum of its items' totalPrice and each
\* totalPrice is unitPrice * quantity; unitPrice is the catalog price read
\* when the order was placed; no later step (a price change, a payment or a
\* fulfilment operation) changes the items or the totalAmount of an order.
C2_Totals ==
  /\ [](\A i \in 1..Len(orders) :
          /\ orders[i].totalAmount = SumOfTotals(orders[i].items, Len(orders[i].items))
          /\ \A it \in SeqRange(orders[i].items) : it.totalPrice = it.unitPrice * it.quantity)
  /\ [][\A r \in Reqs : req[r].pc = "co_populate" /\ req'[r].pc = "co_create" =>
          \A g \in SeqRange(req'[r].groups) : \A it \in SeqRange(g.items) :
             it.unitPrice = products[it.product].price]_vars
  /\ [][Len(orders') # Len(orders) =>
          /\ Len(orders') = Len(orders) + 1
          /\ \E r \in Reqs : /\ req[r].pc = "co_create"
                             /\ orders'[Len(orders')].items = req[r].groups[req[r].gi].items]_vars
  /\ [][\A i \in 1..Len(orders) :
          /\ i <= Len(orders')
          /\ orders'[i].items = orders[i].items
          /\ orders'[i].totalAmount = orders[i].totalAmount]_vars

C2_Witness ==
  \E i \in 1..Len(orders) :
    /\ Len(orders[i].items) = 2
    /\ orders[i].paymentStatus = "approved" /\ orders[i].status = "cancelled"
    /\ \E it \in SeqRange(orders[i].items) :
         it.quantity = 2 /\ it.unitPrice # products[it.product].price

\* ---- validation of the populated cart (the step that leaves co_populate)
Validates(r) == req[r].pc = "co_populate" /\ Steps(r)
Unavailable(line) == ~products[line.product].exists \/ ~products[line.product].isActive
OverStock(line) == products[line.product].exists /\ line.quantity > products[line.product].stockQuantity
Fails(line) == Unavailable(line) \/ OverStock(line)
FirstFailing(items, i) == Fails(items[i]) /\ \A j \in 1..(i - 1) : ~Fails(items[j])
NothingWritten(r) ==
  /\ orders' = orders /\ products' = products /\ carts' = carts
  /\ req[r].created = <<>> /\ req'[r].pc = "idle"

\* C3 as stated: any over-stock line item makes placeOrder answer 400
\* insufficient stock and write nothing.
C3_Original ==
  [][\A r \in Reqs :
       (Validates(r) /\ \E i \in 1..Len(req[r].items) : OverStock(req[r].items[i])) =>
          /\ resp'.code = 400 /\ resp'.msg = "Insufficient stock"
          /\ NothingWritten(r)]_vars

\* C3 amended: when some line item is over stock (stock + 1 included) the
\* call fails with 400 or 404 and writes nothing (no order, no stock change,
\* cart unchanged); the answer is 400 insufficient stock when the first
\* failing line item in cart order is an available product that is over stock.
C3_InsufficientStock ==
  [][\A r \in Reqs :
       (Validates(r) /\ \E i \in 1..Len(req[r].items) : OverStock(req[r].items[i])) =>
          /\ resp'.kind = "createOrder" /\ resp'.code \in {400, 404}
          /\ NothingWritten(r)
          /\ (\E i \in 1..Len(req[r].items) :
                FirstFailing(req[r].items, i) /\ ~Unavailable(req[r].items[i]))
             => (resp'.code = 400 /\ resp'.msg = "Insufficient stock")]_vars

C3_Witness ==
  /\ resp.kind = "createOrder" /\ resp.code = 400 /\ resp.msg = "Insufficient stock"
  /\ Len(carts["c1"].items) = 2
  /\ ~Fails(carts["c1"].items[1])
  /\ carts["c1"].items[2].quantity = products[carts["c1"].items[2].product].stockQuantity + 1

\* C4 as stated: any line item whose product is gone or inactive makes
\* placeOrder answer 404 and write nothing.
C4_Original ==
  [][\A r \in Reqs :
       (Validates(r) /\ \E i \in 1..Len(req[r].items) : Unavailable(req[r].items[i])) =>
          /\ resp'.code = 404
          /\ NothingWritten(r)]_vars

\* C4 amended: when some line item's product no longer exists or is inactive
\* the call fails with 404 or 400 and writes nothing (no order, no stock
\* decrement, cart not cleared); the answer is 404 product unavailable when
\* the first failing line item in cart order is such a product.
C4_ProductUnavailable ==
  [][\A r \in Reqs :
       (Validates(r) /\ \E i \in 1..Len(req[r].items) : Unavailable(req[r].items[i])) =>
          /\ resp'.kind = "createOrder" /\ resp'.code \in {400, 404}
          /\ NothingWritten(r)
          /\ (\E i \in 1..Len(req[r].items) :
                FirstFailing(req[r].items, i) /\ Unavailable(req[r].items[i]))
             => (resp'.code = 404 /\ resp'.msg = "Product not available")]_vars

C4_Witness ==
  /\ resp.kind = "createOrder" /\ resp.code = 404
  /\ Len(carts["c1"].items) = 2
  /\ ~Fails(carts["c1"].items[1])
  /\ products[carts["c1"].items[2].product].exists
  /\ ~products[carts["c1"].items[2].product].isActive
  /\ orders = <<>>

\* C5: when placeOrder answers success the caller's cart has zero items, and
\* a cart is emptied only by the last step of a placement, after an order was
\* created for every vendor group and the stock loop ran over every item.
C5_CartCleared ==
  /\ [][\A r \in Reqs : Placed(r) => carts'[req[r].user].items = <<>>]_vars
  /\ [][\A u \in Users : carts'[u] # carts[u] =>
          \E r \in Reqs :
             /\ req[r].user = u /\ req[r].pc = "co_clear" /\ Steps(r)
             /\ Len(req[r].created) = Len(req[r].groups)
             /\ \A a \in 1..Len(req[r].created) :
                  /\ req[r].created[a] \in 1..Len(orders)
                  /\ orders[req[r].created[a]].items = req[r].groups[a].items
             /\ req[r].gi = Len(req[r].groups)
             /\ req[r].ii = Len(req[r].groups[req[r].gi].items)]_vars

C5_Witness ==
  /\ resp.kind = "createOrder" /\ resp.code = 201
  /\ carts["c1"].items = <<>> /\ Len(orders) = 2

\* C6: at the end of a successful placeOrder each purchased product's stock
\* is the stock the placement read minus the purchased quantity, and a step
\* of the placement changes the stock of no product outside the cart.
C6_StockDecrement ==
  /\ [][\A r \in Reqs : Placed(r) =>
          \A i \in 1..Len(req[r].items) :
             products'[req[r].items[i].product].stockQuantity
               = req[r].stockSeen[i] - req[r].items[i].quantity]_vars
  /\ [][\A r \in Reqs : Steps(r) =>
          \A p \in Products :
             products'[p].stockQuantity # products[p].stockQuantity =>
               \E i \in 1..Len(req[r].items) : req[r].items[i].product = p]_vars

C6_Witness ==
  /\ resp.kind = "createOrder" /\ resp.code = 201
  /\ \E i \in 1..Len(orders) : \E it \in SeqRange(orders[i].items) :
       it.quantity = 2 /\ products[it.product].stockQuantity = MaxStock - 2
  /\ \E p \in Products : products[p].stockQuantity = MaxStock
       /\ \A i \in 1..Len(orders) : \A it \in SeqRange(orders[i].items) : it.product # p

\* C7: an order is created with paymentStatus 'paid' exactly when the request
\* named paymentMethod 'card' and carried a payment reference; in every
\* other case it is created 'pending'.
C7_SeededStatus ==
  [][\A r \in Reqs : (req[r].pc = "co_create" /\ Steps(r)) =>
       /\ Len(orders') = Len(orders) + 1
       /\ orders'[Len(orders')].paymentStatus =
            (IF req[r].method = "card" /\ req[r].ref # NoRef THEN "paid" ELSE "pending")]_vars

C7_Witness ==
  /\ \E i \in 1..Len(orders) : orders[i].paymentMethod = "card" /\ orders[i].paymentReference = NoRef
                                /\ orders[i].paymentStatus = "pending"
  /\ Len(orders) = 2

\* C8: once an order's paymentStatus is 'approved' it stays 'approved' in
\* every later state, whatever verifyPayment, confirmBankTransfer,
\* approvePayment and updateOrderStatus calls follow.
C8_ApprovedIsTerminal ==
  [][\A i \in 1..Len(orders) :
       orders[i].paymentStatus = "approved" => orders'[i].paymentStatus = "approved"]_vars

OwnerOrAdmin(u, oid) == orders[oid].vendor = u \/ role(u) = "admin"

\* the first step of an approvePayment / updateOrderStatus request
Starts(r, pc) == req[r].pc = "idle" /\ req'[r].pc = pc
ApproveArrives ==
  \/ resp'.kind = "approvePayment" /\ resp'.code # 200
  \/ \E r \in Reqs : Starts(r, "ap_save")
StatusArrives ==
  \/ resp'.kind = "updateOrderStatus" /\ resp'.code # 200
  \/ \E r \in Reqs : Starts(r, "uos_save")
Refused == resp'.code \in {400, 403, 404}

\* every first step of approvePayment answers, or starts, as its checks say
ApproveAsChecked ==
  ApproveArrives =>
    \E u \in Users, oid \in 0..Len(orders) :
      /\ resp' = approvePayment_Check(u, oid)
      /\ IF resp' = NoResp
         THEN \E r \in Reqs : Starts(r, "ap_save") /\ req'[r].user = u /\ req'[r].oid = oid
         ELSE req' = req

\* every first step of updateOrderStatus answers, or starts, as its checks say
StatusAsChecked ==
  StatusArrives =>
    \E u \in Users, oid \in 0..Len(orders), st \in StatusInputs :
      /\ resp' = updateOrderStatus_Check(u, oid, st)
      /\ IF resp' = NoResp
         THEN \E r \in Reqs : /\ Starts(r, "uos_save")
                              /\ req'[r].user = u /\ req'[r].oid = oid /\ req'[r].arg = st
         ELSE req' = req

\* C9: approvePayment by the order's vendor or an admin on an order that is
\* not yet approved passes the checks, and its save answers 200 and leaves
\* paymentStatus 'approved'; the next such call, on the now approved order,
\* is answered 400 'already approved' and changes nothing, so paymentStatus
\* is still 'approved'.
C9_ApproveTwice ==
  /\ [](\A u \in Users, oid \in 1..Len(orders) : OwnerOrAdmin(u, oid) =>
          IF orders[oid].paymentStatus = "approved"
          THEN approvePayment_Check(u, oid) =
                 Reply("approvePayment", 400, "Payment already approved", 0, <<>>)
          ELSE approvePayment_Check(u, oid) = NoResp)
  /\ [][ApproveAsChecked]_vars
  /\ [][(ApproveArrives /\ Refused) => (orders' = orders /\ req' = req)]_vars
  /\ [][\A r \in Reqs : (req[r].pc = "ap_save" /\ Steps(r)) =>
          /\ resp'.kind = "approvePayment" /\ resp'.code = 200 /\ resp'.oid = req[r].oid
          /\ orders'[req[r].oid].paymentStatus = "approved"]_vars

C9_Witness ==
  /\ resp.kind = "approvePayment" /\ resp.code = 400 /\ resp.msg = "Payment already approved"
  /\ \E i \in 1..Len(orders) : orders[i].paymentStatus = "approved"

\* C10 as stated: approvePayment and updateOrderStatus by a principal who is
\* neither the order's vendor nor an admin answer 403 and change nothing.
C10_Original ==
  [][/\ ApproveArrives =>
          \A r \in Reqs, u \in Users, oid \in 1..Len(orders) :
            (~OwnerOrAdmin(u, oid) /\ approvePayment_Begin(r, u, oid)) =>
               (resp'.code = 403 /\ orders' = orders /\ req' = req)
     /\ StatusArrives =>
          \A r \in Reqs, u \in Users, oid \in 1..Len(orders), st \in StatusInputs :
            (~OwnerOrAdmin(u, oid) /\ updateOrderStatus_Begin(r, u, oid, st)) =>
               (resp'.code = 403 /\ orders' = orders /\ req' = req)]_vars

\* C10 amended: approvePayment and updateOrderStatus by a principal who is
\* neither the order's vendor nor an admin fail and leave every field of the
\* order unchanged; the answer is 403, except that updateOrderStatus called
\* by a vendor with a newStatus outside the five valid values answers 400
\* (the status is validated before the ownership test).
C10_NotAuthorized ==
  /\ [](\A u \in Users, oid \in 1..Len(orders) : ~OwnerOrAdmin(u, oid) =>
          /\ approvePayment_Check(u, oid).code = 403
          /\ \A st \in StatusInputs :
               IF role(u) = "vendor" /\ st \notin validStatuses
               THEN updateOrderStatus_Check(u, oid, st) =
                      Reply("updateOrderStatus", 400, "Invalid status", 0, <<>>)
               ELSE updateOrderStatus_Check(u, oid, st).code = 403)
  /\ [][ApproveAsChecked /\ StatusAsChecked]_vars
  /\ [][((ApproveArrives \/ StatusArrives) /\ Refused) => (orders' = orders /\ req' = req)]_vars

C10_Witness ==
  /\ resp.kind = "updateOrderStatus" /\ resp.code = 403 /\ resp.msg = "Not authorized"
  /\ \E i \in 1..Len(orders) : orders[i].vendor = "v1"
  /\ \A i \in 1..Len(orders) : orders[i].vendor # "v2" /\ orders[i].status = "pending"

\* the first step of a confirmBankTransfer request
TransferArrives ==
  \/ resp'.kind = "confirmBankTransfer" /\ resp'.code # 200
  \/ \E r \in Reqs : Starts(r, "cbt_save")

\* every first step of confirmBankTransfer answers, or starts, as its checks say
TransferAsChecked ==
  TransferArrives =>
    \E u \in Users, oid \in 0..Len(orders) :
      /\ resp' = confirmBankTransfer_Check(u, oid)
      /\ IF resp' = NoResp
         THEN \E r \in Reqs : Starts(r, "cbt_save") /\ req'[r].user = u /\ req'[r].oid = oid
         ELSE req' = req

\* C11: confirmBankTransfer by any principal other than the order's own
\* customer (another customer, the order's vendor, an admin) is answered 403
\* 'Not authorized' and changes nothing, so paymentReference and
\* paymentStatus of the order are unchanged; only the order's customer
\* reaches the save.
C11_TransferNotAuthorized ==
  /\ [](\A u \in Users, oid \in 1..Len(orders) :
          IF orders[oid].customer # u
          THEN confirmBankTransfer_Check(u, oid) =
                 Reply("confirmBankTransfer", 403, "Not authorized", 0, <<>>)
          ELSE confirmBankTransfer_Check(u, oid) = NoResp)
  /\ [][TransferAsChecked]_vars
  /\ [][(TransferArrives /\ Refused) => (orders' = orders /\ req' = req)]_vars
  /\ [][\A r \in Reqs : (req[r].pc = "cbt_save" /\ Steps(r)) =>
          orders[req[r].oid].customer = req[r].user]_vars

C11_Witness ==
  /\ resp.kind = "confirmBankTransfer" /\ resp.code = 403
  /\ Len(orders) = 2
  /\ \E i \in 1..Len(orders) : orders[i].vendor = "v1" /\ orders[i].paymentStatus = "approved"
  /\ \E i \in 1..Len(orders) : orders[i].paymentReference = "ref2"

\* the 'end' callback (or the 'error' handler) of r's gateway call runs
GatewayEnds(r) == req[r].pc = "vp_end" /\ (Steps(r) \/ serverUp' # serverUp)

\* C12: when the gateway reports 'success' for a reference, verifyPayment
\* answers 200 and leaves paymentStatus 'paid' on every order whose
\* paymentReference is that reference; every other order, and every other
\* field of the matching orders, is unchanged.
C12_PaidByReference ==
  [][\A r \in Reqs : (GatewayEnds(r) /\ req[r].arg = "success") =>
       /\ resp'.kind = "verifyPayment" /\ resp'.code = 200
       /\ Len(orders') = Len(orders)
       /\ \A i \in 1..Len(orders) :
            IF orders[i].paymentReference = req[r].ref
            THEN orders'[i] = [orders[i] EXCEPT !.paymentStatus = "paid"]
            ELSE orders'[i] = orders[i]]_vars

C12_Witness ==
  /\ resp.kind = "verifyPayment" /\ resp.code = 200
  /\ \E i, j \in 1..Len(orders) :
       /\ orders[i].vendor # orders[j].vendor
       /\ orders[i].customer = orders[j].customer
       /\ orders[i].paymentMethod = "bank_transfer" /\ orders[j].paymentMethod = "bank_transfer"
       /\ orders[i].paymentReference = "ref2" /\ orders[j].paymentReference = "ref2"
       /\ orders[i].paymentStatus = "paid" /\ orders[j].paymentStatus = "paid"

\* C13: when the gateway answers with a non-success outcome (a status other
\* than 'success', or a response without transaction data) the caller is
\* answered 400 and no order is changed.
C13_NonSuccess ==
  [][\A r \in Reqs : (GatewayEnds(r) /\ req[r].arg \in {"failed", "nodata"}) =>
       /\ resp'.kind = "verifyPayment" /\ resp'.code = 400
       /\ orders' = orders]_vars

\* C14: a gateway call that fails at the network level, or whose response
\* body cannot be parsed, is answered with a 500 failure, modifies no order
\* and leaves the server running.
C14_GenericFailure ==
  [][\A r \in Reqs : (GatewayEnds(r) /\ req[r].arg \in {"neterror", "unparsable"}) =>
       /\ resp'.kind = "verifyPayment" /\ resp'.code = 500
       /\ orders' = orders
       /\ serverUp']_vars

\* C15: an existing order goes from 'pending' to 'paid' only in the step that
\* ends a successful gateway verification of that order's paymentReference,
\* and from 'pending' or 'paid' to 'approved' only in the save of an
\* approvePayment of that order.
C15_PaidOnlyByGateway ==
  /\ [][\A i \in 1..Len(orders) :
          (orders[i].paymentStatus = "pending" /\ orders'[i].paymentStatus = "paid") =>
             \E r \in Reqs : /\ req[r].pc = "vp_end" /\ req[r].arg = "success"
                              /\ req[r].ref = orders[i].paymentReference
                              /\ resp'.kind = "verifyPayment" /\ resp'.code = 200]_vars
  /\ [][\A i \in 1..Len(orders) :
          (orders[i].paymentStatus \in {"pending", "paid"} /\ orders'[i].paymentStatus = "approved") =>
             \E r \in Reqs : /\ req[r].pc = "ap_save" /\ req[r].oid = i
                              /\ resp'.kind = "approvePayment" /\ resp'.code = 200]_vars

C15_Witness ==
  /\ resp.kind = "verifyPayment" /\ resp.code = 200
  /\ \E i \in 1..Len(orders) :
       /\ orders[i].paymentMethod = "bank_transfer" /\ orders[i].paymentReference = "ref2"
       /\ orders[i].paymentStatus = "paid"
  /\ \E i \in 1..Len(orders) :
       /\ orders[i].paymentMethod = "bank_transfer" /\ orders[i].paymentReference = NoRef
       /\ orders[i].paymentStatus = "approved"

\* C16: for the order's vendor or an admin, approvePayment passes its checks
\* exactly when paymentStatus is 'pending' or 'paid' and is refused with 400
\* only when it is 'approved'; the save that follows leaves 'approved'.
C16_ApproveFromPendingOrPaid ==
  /\ [](\A oid \in 1..Len(orders) : orders[oid].paymentStatus \in {"pending", "paid", "approved"})
  /\ [](\A u \in Users, oid \in 1..Len(orders) : OwnerOrAdmin(u, oid) =>
          /\ (orders[oid].paymentStatus \in {"pending", "paid"}) = (approvePayment_Check(u, oid) = NoResp)
          /\ (orders[oid].paymentStatus = "approved") = (approvePayment_Check(u, oid).code = 400))
  /\ [][\A r \in Reqs : (req[r].pc = "ap_save" /\ Steps(r)) =>
          /\ orders[req[r].oid].paymentStatus \in {"pending", "paid"}
          /\ orders'[req[r].oid].paymentStatus = "approved"
          /\ resp'.code = 200]_vars

C16_Witness ==
  /\ resp.kind = "approvePayment" /\ resp.code = 200
  /\ orders[resp.oid].paymentMethod = "card" /\ orders[resp.oid].paymentReference = "ref1"
  /\ orders[resp.oid].paymentStatus = "approved"

\* C17: the save of a confirmBankTransfer by the order's customer leaves the
\* order with paymentReference = the submitted reference and paymentStatus
\* 'pending', whatever both were before, and changes nothing else; so a
\* second call with the same reference changes nothing, and a call with
\* another reference leaves exactly that last reference stored.
C17_TransferIdempotent ==
  /\ [][\A r \in Reqs : (req[r].pc = "cbt_save" /\ Steps(r)) =>
          /\ resp'.kind = "confirmBankTransfer" /\ resp'.code = 200
          /\ orders' = [orders EXCEPT ![req[r].oid] =
                          [@ EXCEPT !.paymentReference = req[r].ref, !.paymentStatus = "pending"]]]_vars
  /\ [][\A r \in Reqs : (/\ req[r].pc = "cbt_save" /\ Steps(r)
                          /\ orders[req[r].oid].paymentReference = req[r].ref
                          /\ orders[req[r].oid].paymentStatus = "pending") =>
          orders' = orders]_vars

\* a second submission, with another reference, has passed its checks on an
\* order that holds the reference of an earlier submission
C17_Witness ==
  \E r \in Reqs :
    /\ req[r].pc = "cbt_save" /\ req[r].ref = "ref1"
    /\ orders[req[r].oid].paymentMethod = "bank_transfer"
    /\ orders[req[r].oid].paymentReference = "ref2"
    /\ orders[req[r].oid].paymentStatus = "pending"

\* C18: for the order's vendor or an admin, updateOrderStatus with any of the
\* five statuses passes its checks whatever the order's current status, and
\* its save answers 200 and leaves the order in the requested status (the
\* same status and backward moves included).
C18_AnyTransition ==
  /\ [](\A u \in Users, oid \in 1..Len(orders), t \in validStatuses :
          OwnerOrAdmin(u, oid) => updateOrderStatus_Check(u, oid, t) = NoResp)
  /\ [][StatusAsChecked]_vars
  /\ [][\A r \in Reqs : (req[r].pc = "uos_save" /\ Steps(r)) =>
          /\ resp'.kind = "updateOrderStatus" /\ resp'.code = 200
          /\ orders' = [orders EXCEPT ![req[r].oid].status = req[r].arg]]_vars

\* a move back from delivered to pending has passed its checks
C18_Witness ==
  \E r \in Reqs :
    /\ req[r].pc = "uos_save" /\ req[r].arg = "pending"
    /\ orders[req[r].oid].status = "delivered"
    /\ OwnerOrAdmin(req[r].user, req[r].oid)

\* C19 as stated: updateOrderStatus with a newStatus outside the five valid
\* values (a missing status included) is answered 400 'Invalid status'
\* whoever calls, and changes nothing; every order's status is always one
\* of the five values.
C19_Original ==
  /\ [](\A u \in Users, oid \in 1..Len(orders), st \in StatusInputs \ validStatuses :
          updateOrderStatus_Check(u, oid, st) =
            Reply("updateOrderStatus", 400, "Invalid status", 0, <<>>))
  /\ [](\A i \in 1..Len(orders) : orders[i].status \in validStatuses)

\* C19 amended: updateOrderStatus with a newStatus outside the five valid
\* values (a missing status included), called by a principal whose role is
\* vendor or admin, is answered 400 'Invalid status', whether or not the
\* order exists or is the caller's; called by a customer it is answered 403
\* by the role check; in both cases nothing changes, and every order's
\* status is always one of the five values.
C19_InvalidStatus ==
  /\ [](\A u \in Users, oid \in 0..Len(orders), st \in StatusInputs \ validStatuses :
          IF isVendor(u)
          THEN updateOrderStatus_Check(u, oid, st) =
                 Reply("updateOrderStatus", 400, "Invalid status", 0, <<>>)
          ELSE updateOrderStatus_Check(u, oid, st).code = 403)
  /\ [][StatusAsChecked]_vars
  /\ [][(StatusArrives /\ Refused) => (orders' = orders /\ req' = req)]_vars
  /\ [][\A r \in Reqs : (req[r].pc = "uos_save" /\ Steps(r)) => req[r].arg \in validStatuses]_vars
  /\ [](\A i \in 1..Len(orders) : orders[i].status \in validStatuses)

C19_Witness ==
  /\ resp.kind = "updateOrderStatus" /\ resp.code = 400 /\ resp.msg = "Invalid status"
  /\ \E i \in 1..Len(orders) : orders[i].status = "shipped"

\* C20: no step removes an order or changes its customer, vendor, items,
\* totalAmount, paymentMethod, shippingAddress or phone; status is changed
\* only by the save of an updateOrderStatus on that order; paymentStatus and
\* paymentReference are changed only by the steps of verifyPayment,
\* confirmBankTransfer and approvePayment that write, and those steps change
\* nothing else.
C20_Frame ==
  /\ [][/\ Len(orders') >= Len(orders)
        /\ \A i \in 1..Len(orders) :
             orders'[i] = [orders[i] EXCEPT !.paymentStatus = orders'[i].paymentStatus,
                                            !.paymentReference = orders'[i].paymentReference,
                                            !.status = orders'[i].status]]_vars
  /\ [][\A i \in 1..Len(orders) : orders'[i].status # orders[i].status =>
          \E r \in Reqs : /\ req[r].pc = "uos_save" /\ Steps(r) /\ req[r].oid = i
                           /\ orders'[i].paymentStatus = orders[i].paymentStatus
                           /\ orders'[i].paymentReference = orders[i].paymentReference]_vars
  /\ [][\A i \in 1..Len(orders) :
          (\/ orders'[i].paymentStatus # orders[i].paymentStatus
           \/ orders'[i].paymentReference # orders[i].paymentReference) =>
          \E r \in Reqs : /\ req[r].pc \in {"vp_end", "cbt_save", "ap_save"} /\ Steps(r)
                           /\ req[r].pc \in {"cbt_save", "ap_save"} => req[r].oid = i
                           /\ orders'[i].status = orders[i].status]_vars

C20_Witness ==
  /\ resp.kind = "updateOrderStatus" /\ resp.code = 200
  /\ \E r \in Reqs : req[r].pc = "cbt_save" /\ req[r].loaded.status = "pending"
                       /\ req[r].loaded.paymentStatus = "pending"
                       /\ orders[req[r].oid].status = "shipped"
                       /\ orders[req[r].oid].paymentStatus = "approved"

\* C21: getOrder answers 200 with the order exactly when the caller is the
\* order's customer, the order's vendor or an admin; any other caller gets
\* 403 for an existing order; 404 is answered only for an id that resolves
\* to no order; getOrder changes no state.
C21_GetOrder ==
  /\ [](\A u \in Users : getOrder_Check(u, 0).code = 404)
  /\ [](\A u \in Users, oid \in 1..Len(orders) :
          getOrder_Check(u, oid) =
            IF u \in {orders[oid].customer, orders[oid].vendor} \/ u \in Admins
            THEN Reply("getOrder", 200, "", oid, <<>>)
            ELSE Reply("getOrder", 403, "Not authorized", 0, <<>>))
  /\ [][resp'.kind = "getOrder" =>
          /\ \E u \in Users, oid \in 0..Len(orders) : resp' = getOrder_Check(u, oid)
          /\ UNCHANGED <<products, carts, orders, req, serverUp>>]_vars

C21_Witness ==
  /\ resp.kind = "getOrder" /\ resp.code = 403
  /\ Len(orders) = 2
  /\ orders[1].vendor # orders[2].vendor

\* the first step of a createOrder request
PlaceArrives ==
  \/ /\ resp'.kind = "createOrder" /\ resp'.code = 400
     /\ resp'.msg \notin {"Insufficient stock"}
  \/ \E r \in Reqs : Starts(r, "co_populate")

\* C22: placeOrder with an empty shippingAddress or phone is answered 400
\* (address or phone required), and with a missing cart or a cart of zero
\* items 400 'Cart is empty'; in each case the request ends there: no order
\* is created, no stock is changed and no cart is modified.
C22_Validation ==
  /\ [](\A u \in Users, a \in {"", "X"}, ph \in {"", "Y"} :
          /\ a = "" => createOrder_Check(u, a, ph) =
                         Reply("createOrder", 400, "Shipping address is required", 0, <<>>)
          /\ (a # "" /\ ph = "") => createOrder_Check(u, a, ph) =
                         Reply("createOrder", 400, "Phone number is required", 0, <<>>)
          /\ (a # "" /\ ph # "" /\ (~carts[u].exists \/ carts[u].items = <<>>)) =>
                createOrder_Check(u, a, ph) = Reply("createOrder", 400, "Cart is empty", 0, <<>>))
  /\ [][PlaceArrives =>
          /\ \E u \in Users, a \in {"", "X"}, ph \in {"", "Y"} :
               /\ resp' = createOrder_Check(u, a, ph)
               /\ resp' = NoResp <=> \E r \in Reqs : Starts(r, "co_populate") /\ req'[r].user = u
          /\ resp'.code = 400 => UNCHANGED <<products, carts, orders, req, serverUp>>]_vars

C22_Witness ==
  /\ resp.kind = "createOrder" /\ resp.code = 400 /\ resp.msg = "Cart is empty"
  /\ carts["c1"].exists /\ carts["c1"].items = <<>>
  /\ orders = <<>>

\* quantity of product p in the orders
RECURSIVE QtyIn(_, _)
QtyIn(items, p) ==
  IF items = <<>> THEN 0
  ELSE QtyIn(Tail(items), p) + (IF Head(items).product = p THEN Head(items).quantity ELSE 0)
RECURSIVE SoldIn(_, _)
SoldIn(os, p) == IF os = <<>> THEN 0 ELSE SoldIn(Tail(os), p) + QtyIn(Head(os).items, p)

\* C23: placements are not serialized: the stock check of a placement looks
\* only at the stock stored when it runs, and once it has passed, each
\* decrement step subtracts the line's quantity from whatever the stock is
\* then and the placement goes on to its 201; so two placements whose
\* quantities each fit the stock can both pass the check before either
\* decrements, and both succeed with more sold than was in stock.
C23_NotSerialized ==
  /\ [][\A r \in Reqs : (req[r].pc = "co_populate" /\ Steps(r)) =>
          ((\A i \in 1..Len(req[r].items) : ~Fails(req[r].items[i])) <=> req'[r].pc = "co_create")]_vars
  /\ [][\A r \in Reqs : (req[r].pc = "co_reduce" /\ Steps(r)) =>
          LET item == req[r].groups[req[r].gi].items[req[r].ii] IN
            /\ products'[item.product].stockQuantity =
                 products[item.product].stockQuantity - item.quantity
            /\ req'[r].pc \in {"co_find", "co_create", "co_clear"}]_vars
  /\ [][\A r \in Reqs : (req[r].pc = "co_clear" /\ Steps(r)) => resp'.code = 201]_vars

\* both shoppers' placements have succeeded and p1 is oversold
C23_Witness ==
  /\ resp.kind = "createOrder" /\ resp.code = 201
  /\ \A r \in Reqs : req[r].pc = "idle"
  /\ Len(orders) = 2 /\ orders[1].customer # orders[2].customer
  /\ \A u \in Customers : carts[u].items = <<>>
  /\ \A i \in 1..2 : orders[i].items[1].quantity <= products["p1"].stockQuantity + SoldIn(orders, "p1")
  /\ products["p1"].stockQuantity < 0

\* C28: a cart is converted into orders at most once: no shopper ever has
\* more orders than the one placement of the cart creates (carts hold one
\* line and are never refilled here).
C28_ConvertedOnce ==
  \A u \in Customers : Cardinality({i \in 1..Len(orders) : orders[i].customer = u}) <= 1

\* C24: when a step of placeOrder fails after an order was created, the
\* caller is answered 500, and the failing step undoes nothing: the orders
\* created so far and the stock decrements applied so far stay as they are
\* and the cart still holds the items of the placement.
C24_NoRollback ==
  /\ [][\A r \in Reqs : (req[r].pc \in {"co_find", "co_reduce"} /\ Steps(r) /\ req'[r].pc = "idle") =>
          /\ resp'.kind = "createOrder" /\ resp'.code = 500
          /\ req[r].oid \in 1..Len(orders)
          /\ orders' = orders /\ products' = products /\ carts' = carts
          /\ carts[req[r].user].items = req[r].items]_vars
  /\ [][resp'.code = 500 => resp'.kind = "createOrder" /\ Len(orders) >= 1]_vars

C24_Witness ==
  /\ resp.kind = "createOrder" /\ resp.code = 500
  /\ Len(orders) = 2 /\ Len(carts["c1"].items) = 2
  /\ \E p \in Products : products[p].exists /\ products[p].stockQuantity < MaxStock
  /\ \E p \in Products : ~products[p].exists /\ products[p].stockQuantity = MaxStock

\* C27: a step changes a product's stock only as the decrement step of a
\* placement, by the quantity of a line item of the order that placement
\* has just persisted; so, failures included, the quantity taken out of a
\* product's stock never exceeds the quantity of that product in the
\* existing orders.
C27_DecrementAfterOrder ==
  /\ [][\A p \in Products : products'[p].stockQuantity # products[p].stockQuantity =>
          \E r \in Reqs :
             /\ req[r].pc = "co_reduce" /\ Steps(r)
             /\ req[r].oid \in 1..Len(orders)
             /\ orders[req[r].oid].customer = req[r].user
             /\ \E j \in 1..Len(orders[req[r].oid].items) :
                  /\ orders[req[r].oid].items[j].product = p
                  /\ products[p].stockQuantity - products'[p].stockQuantity =
                       orders[req[r].oid].items[j].quantity]_vars
  /\ [](\A p \in Products : MaxStock - products[p].stockQuantity <= SoldIn(orders, p))

C27_Witness ==
  /\ resp.kind = "createOrder" /\ resp.code = 500
  /\ Len(orders) = 1 /\ Len(orders[1].items) = 2
  /\ products[orders[1].items[1].product].stockQuantity = MaxStock - orders[1].items[1].quantity
  /\ ~products[orders[1].items[2].product].exists
  /\ products[orders[1].items[2].product].stockQuantity = MaxStock

\* C25: no step of an order operation increases a product's stock, and the
\* steps of updateOrderStatus (to 'cancelled' included), verifyPayment,
\* confirmBankTransfer and approvePayment leave every product's stock as it
\* is.
C25_NoRestock ==
  /\ [][\A p \in Products : products'[p].stockQuantity <= products[p].stockQuantity]_vars
  /\ [][\A r \in Reqs :
          (Steps(r) /\ req[r].pc \in {"uos_save", "vp_gateway", "vp_end", "cbt_save", "ap_save"}) =>
             \A p \in Products : products'[p].stockQuantity = products[p].stockQuantity]_vars
  /\ [][resp'.kind \in {"updateOrderStatus", "verifyPayment", "confirmBankTransfer", "approvePayment"} =>
          \A p \in Products : products'[p].stockQuantity = products[p].stockQuantity]_vars

C25_Witness ==
  /\ resp.kind = "updateOrderStatus" /\ resp.code = 200
  /\ orders[resp.oid].status = "cancelled"
  /\ \A j \in 1..Len(orders[resp.oid].items) :
       products[orders[resp.oid].items[j].product].stockQuantity =
         MaxStock - orders[resp.oid].items[j].quantity

\* C26: a payment call and a fulfilment call on the same order do not
\* overwrite each other, however their loads and saves interleave: the save
\* of updateOrderStatus stores the requested status and leaves paymentStatus
\* and paymentReference as they are in the store (not as it loaded them);
\* the save of approvePayment stores 'approved' and that of
\* confirmBankTransfer the submitted reference (and 'pending' when no other
\* payment call wrote in between), and both leave status as it is in the
\* store.
C26_NoLostUpdate ==
  /\ [][\A r \in Reqs : (req[r].pc = "uos_save" /\ Steps(r)) =>
          /\ orders'[req[r].oid].status = req[r].arg
          /\ orders'[req[r].oid].paymentStatus = orders[req[r].oid].paymentStatus
          /\ orders'[req[r].oid].paymentReference = orders[req[r].oid].paymentReference]_vars
  /\ [][\A r \in Reqs : (req[r].pc = "ap_save" /\ Steps(r)) =>
          /\ orders'[req[r].oid].paymentStatus = "approved"
          /\ orders'[req[r].oid].status = orders[req[r].oid].status]_vars
  /\ [][\A r \in Reqs : (req[r].pc = "cbt_save" /\ Steps(r)) =>
          /\ orders'[req[r].oid].paymentReference = req[r].ref
          /\ orders[req[r].oid].paymentStatus = req[r].loaded.paymentStatus =>
                orders'[req[r].oid].paymentStatus = "pending"
          /\ orders'[req[r].oid].status = orders[req[r].oid].status]_vars

\* approvePayment has saved while an updateOrderStatus that loaded the order
\* before that save is still to save
C26_Witness ==
  /\ resp.kind = "approvePayment" /\ resp.code = 200
  /\ orders[resp.oid].paymentStatus = "approved" /\ orders[resp.oid].status = "pending"
  /\ \E r \in Reqs : /\ req[r].pc = "uos_save" /\ req[r].oid = resp.oid
                       /\ req[r].loaded.paymentStatus = "pending"

\* C29: every approvePayment that answers success is the one that moves the
\* order to 'approved': the order is not yet 'approved' when a successful
\* call saves, so of two calls on the same order at most one succeeds.
C29_OneSuccess ==
  [][\A r \in Reqs : (req[r].pc = "ap_save" /\ Steps(r) /\ resp'.code = 200) =>
       orders[req[r].oid].paymentStatus # "approved"]_vars

\* C30: the step that ends a successful verifyPayment changes the
\* paymentStatus only of orders whose customer is the caller and whose
\* paymentMethod is 'card'.
C30_OwnCardOrdersOnly ==
  [][\A r \in Reqs : (req[r].pc = "vp_end" /\ Steps(r)) =>
       \A i \in 1..Len(orders) :
          orders'[i].paymentStatus # orders[i].paymentStatus =>
            (orders[i].customer = req[r].user /\ orders[i].paymentMethod = "card")]_vars
====
